---- MODULE Spec2Model ----
(***************************************************************************)
(* A model of the unsafe-any crate (src/lib.rs): unchecked downcasting of  *)
(* trait objects to &T, &mut T and Box<T>.                                 *)
(*                                                                         *)
(* A trait object is a fat pointer (data, vtable).  The heap is a set of   *)
(* storage slots addressed by a bump allocator; a slot holds raw bits, and *)
(* every typed access is a reinterpretation of those bits.  The payload    *)
(* types are the two the crate's tests use: usize (no drop glue) and       *)
(* Dropper (one Arc<AtomicUsize> field; its Drop increments the counter).  *)
(***************************************************************************)
EXTENDS Naturals, FiniteSets

\* ---- bounds ----
MaxBoxes == 2

\* Box h is the h-th allocation; the allocator hands out address h for it.
Handles == 1..MaxBoxes
Addrs == 1..MaxBoxes

\* The concrete types stored behind the trait objects in the tests.
Types == {"usize", "Dropper"}
\* The trait-object types owned by the boxes in the tests.
Kinds == {"UnsafeAny", "Any"}
\* The usize values the tests erase and write.
USizeVals == {7, 8}

\* Raw contents of a storage slot: a plain integer, or the pointer held by
\* Dropper.x, which designates the counter created with the Dropper.
IntBits(n) == [tag |-> "int", n |-> n]
PtrBits(c) == [tag |-> "ptr", n |-> c]

VARIABLES
  erased,   \* erased[h]: the Box<UnsafeAny> / Box<Any> held by variable h
  typed,    \* typed[h]: the Box<T> returned by downcast_unchecked on h
  heap,     \* heap[a]: the storage slot at address a
  counter,  \* counter[a]: the AtomicUsize shared with the Dropper made at a
  next,     \* the next box to be created, and the allocator's next address
  ref,      \* the reference most recently returned by a borrow, if in scope
  crashed,  \* the process was aborted by a fault
  orig,     \* history: the value that was erased into h
  wr        \* history: the last value written through a reference to h

vars == <<erased, typed, heap, counter, next, ref, crashed, orig, wr>>

NoBox == [st |-> "uninit", data |-> 0, vtable |-> "usize", kind |-> "Any"]
NoTyped == [st |-> "uninit", ptr |-> 0, ty |-> "usize"]
NoRef == [h |-> 0, addr |-> 0, ty |-> "usize", mut |-> FALSE]
FreeSlot == [alloc |-> "free", bits |-> IntBits(0), released |-> 0]

\* ---- the traitobject crate: the data half of a fat pointer ----
data_wrong_word(obj) == (obj.data % MaxBoxes) + 1
data(obj) == obj.data

data_mut_wrong_word(obj) == (obj.data % MaxBoxes) + 1
data_mut(obj) == obj.data

\* mem::transmute of a thin pointer into a reference of the requested type:
\* the address is kept, the pointee type is whatever the caller asked for.
transmute_ref(p, T, m) == [addr |-> p, ty |-> T, mut |-> m]

\* mem::transmute of a Box<Trait> into a raw fat pointer: the box is moved
\* into transmute, which forgets it (its destructor never runs).
transmute_into_raw_keep(self) ==
  [raw |-> [data |-> self.data, vtable |-> self.vtable], self |-> self]
transmute_into_raw(self) ==
  [raw |-> [data |-> self.data, vtable |-> self.vtable],
   self |-> [self EXCEPT !.st = "moved"]]

\* mem::transmute of a thin pointer into a Box<T>.
transmute_box(p, T) == [st |-> "live", ptr |-> p, ty |-> T]

\* ---- impl UnsafeAny (the inherent methods) ----
UnsafeAny_downcast_ref_unchecked_wrong_word(self, T) ==
  transmute_ref(data_wrong_word(self), T, FALSE)
UnsafeAny_downcast_ref_unchecked(self, T) ==
  transmute_ref(data(self), T, FALSE)

UnsafeAny_downcast_mut_unchecked_wrong_word(self, T) ==
  transmute_ref(data_mut_wrong_word(self), T, TRUE)
UnsafeAny_downcast_mut_unchecked(self, T) ==
  transmute_ref(data_mut(self), T, TRUE)

UnsafeAny_downcast_unchecked_copy(self, T) ==
  [box |-> transmute_box(data_mut(self), T), self |-> self]
UnsafeAny_downcast_unchecked_wrong_word(self, T) ==
  LET t == transmute_into_raw(self)
  IN [box |-> transmute_box(data_mut_wrong_word(t.raw), T), self |-> t.self]
UnsafeAny_downcast_unchecked(self, T) ==
  LET t == transmute_into_raw(self)
  IN [box |-> transmute_box(data_mut(t.raw), T), self |-> t.self]

\* ---- trait UnsafeAnyExt (the default methods) ----
UnsafeAnyExt_downcast_ref_unchecked_checked(self, T) ==
  IF self.vtable = T THEN transmute_ref(data(self), T, FALSE)
  ELSE transmute_ref(0, T, FALSE)
UnsafeAnyExt_downcast_ref_unchecked(self, T) ==
  transmute_ref(data(self), T, FALSE)

UnsafeAnyExt_downcast_mut_unchecked_wrong_word(self, T) ==
  transmute_ref(data_mut_wrong_word(self), T, TRUE)
UnsafeAnyExt_downcast_mut_unchecked(self, T) ==
  transmute_ref(data_mut(self), T, TRUE)

UnsafeAnyExt_downcast_unchecked_copy(self, T) ==
  [box |-> transmute_box(data_mut(self), T), self |-> self]
UnsafeAnyExt_downcast_unchecked(self, T) ==
  LET t == transmute_into_raw(self)
  IN [box |-> transmute_box(data_mut(t.raw), T), self |-> t.self]

\* Method resolution: on a Box<UnsafeAny> a call resolves to the inherent
\* method, on a Box<Any> to the trait's default method.
PathOf(kind) == IF kind = "UnsafeAny" THEN "inherent" ELSE "ext"

\* The declared trait-object type of box h: the boxes alternate between the
\* two types the tests use.
KindOf(h) == IF h % 2 = 1 THEN "UnsafeAny" ELSE "Any"

downcast_ref_unchecked(path, self, T) ==
  IF path = "inherent" THEN UnsafeAny_downcast_ref_unchecked(self, T)
  ELSE UnsafeAnyExt_downcast_ref_unchecked(self, T)

downcast_mut_unchecked(path, self, T) ==
  IF path = "inherent" THEN UnsafeAny_downcast_mut_unchecked(self, T)
  ELSE UnsafeAnyExt_downcast_mut_unchecked(self, T)

downcast_unchecked(path, self, T) ==
  IF path = "inherent" THEN UnsafeAny_downcast_unchecked(self, T)
  ELSE UnsafeAnyExt_downcast_unchecked(self, T)

\* ---- the payload types ----
\* The bits of a freshly built value of type T stored at address a.
NewBits(T, v, a) == IF T = "usize" THEN IntBits(v) ELSE PtrBits(a)

\* Reading through a reference: the bits at its address.
Deref(r) == heap[r.addr].bits

\* Drop glue of type T run on a slot's bits: the set of possible outcomes.
\* usize has none.  Dropper::drop does x.fetch_add(1) through the pointer in
\* its field; when the bits are not a pointer this dereferences a wild
\* address, which either faults or lands outside the modelled memory.
DropGlue(T, bits) ==
  IF T = "usize" THEN {[counter |-> counter, crashed |-> FALSE]}
  ELSE IF bits.tag = "ptr"
       THEN {[counter |-> [counter EXCEPT ![bits.n] = @ + 1],
              crashed |-> FALSE]}
       ELSE {[counter |-> counter, crashed |-> TRUE],
             [counter |-> counter, crashed |-> FALSE]}

\* ---- the state machine ----
Init ==
  /\ erased = [h \in Handles |-> NoBox]
  /\ typed = [h \in Handles |-> NoTyped]
  /\ heap = [a \in Addrs |-> FreeSlot]
  /\ counter = [a \in Addrs |-> 0]
  /\ next = 1
  /\ ref = NoRef
  /\ crashed = FALSE
  /\ orig = [h \in Handles |-> [ty |-> "usize", bits |-> IntBits(0)]]
  /\ wr = [h \in Handles |-> [n |-> 0, bits |-> IntBits(0)]]

\* let h = Box::new(v) as Box<KindOf(h)>;
Erase(h, T, v) ==
  /\ ~crashed
  /\ h = next
  /\ next <= MaxBoxes
  /\ erased' = [erased EXCEPT ![h] =
                  [st |-> "live", data |-> next, vtable |-> T,
                   kind |-> KindOf(h)]]
  /\ heap' = [heap EXCEPT ![next] =
                [alloc |-> "live", bits |-> NewBits(T, v, next),
                 released |-> 0]]
  /\ next' = next + 1
  /\ orig' = [orig EXCEPT ![h] = [ty |-> T, bits |-> NewBits(T, v, next)]]
  /\ UNCHANGED <<typed, counter, ref, crashed, wr>>

\* The reference a borrow of handle h returns, as held by the caller.
Borrowed(h, r) == [h |-> h, addr |-> r.addr, ty |-> r.ty, mut |-> r.mut]

\* The state change of h.downcast_ref_unchecked::<T>() under one of the two
\* implementations.
DowncastRefEffect(path, h, T) ==
  /\ ~crashed
  /\ erased[h].st = "live"
  /\ ref' = Borrowed(h, downcast_ref_unchecked(path, erased[h], T))
  /\ UNCHANGED <<erased, typed, heap, counter, next, crashed, orig, wr>>

DowncastRef(h, T) == DowncastRefEffect(PathOf(erased[h].kind), h, T)

\* The state change of h.downcast_mut_unchecked::<T>().
DowncastMutEffect(path, h, T) ==
  /\ ~crashed
  /\ erased[h].st = "live"
  /\ ref' = Borrowed(h, downcast_mut_unchecked(path, erased[h], T))
  /\ UNCHANGED <<erased, typed, heap, counter, next, crashed, orig, wr>>

DowncastMut(h, T) == DowncastMutEffect(PathOf(erased[h].kind), h, T)

\* *r = w; through the mutable reference in scope.  The tests only assign
\* usize values, so the reference is one that was requested as &mut usize;
\* assigning a usize runs no drop glue on the old contents.
Write(w) ==
  /\ ~crashed
  /\ ref.h # 0
  /\ ref.mut
  /\ ref.ty = "usize"
  /\ heap' = [heap EXCEPT ![ref.addr].bits = IntBits(w)]
  /\ wr' = [wr EXCEPT ![ref.h] = [n |-> 1, bits |-> IntBits(w)]]
  /\ UNCHANGED <<erased, typed, counter, next, ref, crashed, orig>>

\* The state change of h.downcast_unchecked::<T>(): h is moved into the call
\* (any borrow of it has ended) and the returned box is bound to typed[h].
DowncastBoxEffect(path, h, T) ==
  /\ ~crashed
  /\ erased[h].st = "live"
  /\ typed[h].st = "uninit"
  /\ LET r == downcast_unchecked(path, erased[h], T)
     IN /\ erased' = [erased EXCEPT ![h] = r.self]
        /\ typed' = [typed EXCEPT ![h] = r.box]
  /\ ref' = IF ref.h = h THEN NoRef ELSE ref
  /\ UNCHANGED <<heap, counter, next, crashed, orig, wr>>

DowncastBox(h, T) == DowncastBoxEffect(PathOf(erased[h].kind), h, T)

\* Releasing the slot at address a as a value of type T: run T's drop glue
\* on the bits, then free the storage.  A fault aborts the process inside
\* the drop glue, before the storage is freed and with the box still held.
Release(a, T) ==
  \E o \in DropGlue(T, heap[a].bits) :
    /\ counter' = o.counter
    /\ crashed' = o.crashed
    /\ heap' = IF o.crashed THEN heap
               ELSE [heap EXCEPT ![a].alloc = "freed",
                                 ![a].released = @ + 1]

\* drop(typed[h]): a Box<T> drops its contents as a T.
DropTyped(h) ==
  /\ ~crashed
  /\ typed[h].st = "live"
  /\ Release(typed[h].ptr, typed[h].ty)
  /\ typed' = IF crashed' THEN typed ELSE [typed EXCEPT ![h].st = "dropped"]
  /\ UNCHANGED <<erased, next, ref, orig, wr>>

\* drop(erased[h]): a Box<Trait> drops its contents through the vtable, that
\* is, as the type that was erased.  Any borrow of h has ended.
DropErased(h) ==
  /\ ~crashed
  /\ erased[h].st = "live"
  /\ Release(erased[h].data, erased[h].vtable)
  /\ erased' = IF crashed' THEN erased
               ELSE [erased EXCEPT ![h].st = "dropped"]
  /\ ref' = IF ref.h = h THEN NoRef ELSE ref
  /\ UNCHANGED <<typed, next, orig, wr>>

Next ==
  \/ \E h \in Handles, v \in USizeVals : Erase(h, "usize", v)
  \/ \E h \in Handles : Erase(h, "Dropper", 0)
  \/ \E h \in Handles, T \in Types : DowncastRef(h, T)
  \/ \E h \in Handles, T \in Types : DowncastMut(h, T)
  \/ \E w \in USizeVals : Write(w)
  \/ \E h \in Handles, T \in Types : DowncastBox(h, T)
  \/ \E h \in Handles : DropTyped(h)
  \/ \E h \in Handles : DropErased(h)

Spec == Init /\ [][Next]_vars

TypeOK ==
  /\ next \in 1..(MaxBoxes + 1)
  /\ crashed \in BOOLEAN
  /\ \A h \in Handles : erased[h].st \in {"uninit", "live", "moved", "dropped"}
  /\ \A h \in Handles : typed[h].st \in {"uninit", "live", "dropped"}
  /\ ref.addr \in 0..MaxBoxes

\* ---- the claims ----

\* The containers that own the storage at address a.
Owners(a) ==
  {<<"erased", h>> : h \in {g \in Handles :
       erased[g].st = "live" /\ erased[g].data = a}}
  \cup {<<"typed", h>> : h \in {g \in Handles :
       typed[g].st = "live" /\ typed[g].ptr = a}}

\* C1: a Dropper (its counter starting at 0) that was erased, taken back with
\* downcast_unchecked::<Dropper> and whose taken box was then dropped has its
\* counter at exactly 1; between the take and the drop the counter is still
\* 0.  Both the inherent path and the extension-trait path are covered, the
\* handle having been accessed only as the type it holds.
C1_SingleRelease ==
  \A h \in Handles :
    (orig[h].ty = "Dropper" /\ typed[h].ty = "Dropper" /\ wr[h].n = 0)
    => /\ typed[h].st = "live" => counter[orig[h].bits.n] = 0
       /\ typed[h].st = "dropped" => counter[orig[h].bits.n] = 1

C1_Witness ==
  \E h1, h2 \in Handles :
    /\ PathOf(erased[h1].kind) = "inherent"
    /\ PathOf(erased[h2].kind) = "ext"
    /\ \A h \in {h1, h2} :
         /\ orig[h].ty = "Dropper" /\ typed[h].ty = "Dropper"
         /\ typed[h].st = "dropped" /\ wr[h].n = 0
         /\ counter[orig[h].bits.n] = 1

\* C2: an immutable borrow requested as the type that was erased, with no
\* write made through the handle, observes the erased value.
C2_RoundTripRef ==
  (ref.h # 0 /\ ~ref.mut /\ ref.ty = orig[ref.h].ty /\ wr[ref.h].n = 0)
  => Deref(ref) = orig[ref.h].bits

C2_Witness ==
  /\ ref.h # 0 /\ ~ref.mut /\ ref.ty = "usize"
  /\ orig[ref.h].ty = "usize" /\ wr[ref.h].n = 0
  /\ Deref(ref) = IntBits(7)

\* C3: a mutable borrow requested as the type that was erased, before any
\* write through the handle, observes the erased value.
C3_RoundTripMut ==
  (ref.h # 0 /\ ref.mut /\ ref.ty = orig[ref.h].ty /\ wr[ref.h].n = 0)
  => Deref(ref) = orig[ref.h].bits

C3_Witness ==
  /\ ref.h # 0 /\ ref.mut /\ ref.ty = "Dropper"
  /\ orig[ref.h].ty = "Dropper" /\ wr[ref.h].n = 0
  /\ Deref(ref) = PtrBits(erased[ref.h].data)

\* C4: once a value w has been written through a mutable borrow of a handle,
\* every borrow of that handle as the written type, mutable or immutable,
\* observes the last value written.
C4_ReadAfterWrite ==
  (ref.h # 0 /\ wr[ref.h].n = 1 /\ ref.ty = "usize")
  => Deref(ref) = wr[ref.h].bits

C4_Witness ==
  /\ ref.h # 0 /\ ~ref.mut /\ ref.ty = "usize"
  /\ orig[ref.h].bits = IntBits(7)
  /\ wr[ref.h].n = 1 /\ Deref(ref) = IntBits(8)

\* C5: the step in which downcast_unchecked returns its box leaves the heap
\* and every counter as they were, and the returned box holds the address
\* the erased box held, with the payload found there unchanged.
C5_TakeFrame ==
  [][\A h \in Handles :
       (typed[h].st = "uninit" /\ typed'[h].st = "live")
       => /\ typed'[h].ptr = erased[h].data
          /\ heap' = heap
          /\ counter' = counter
          /\ heap'[erased[h].data].released = 0]_vars

C5_Witness ==
  \E h \in Handles :
    /\ typed[h].st = "live" /\ erased[h].st = "moved"
    /\ typed[h].ptr = erased[h].data
    /\ typed[h].ty = orig[h].ty
    /\ heap[typed[h].ptr].bits = orig[h].bits
    /\ heap[typed[h].ptr].released = 0

\* C6: a step in which a borrow returns a reference changes no box, no
\* storage slot and no counter, and the reference designates the address in
\* the data word of the handle.
C6_BorrowFrame ==
  [][\A h \in Handles :
       (ref' # ref /\ ref'.h = h)
       => /\ erased' = erased
          /\ typed' = typed
          /\ heap' = heap
          /\ counter' = counter
          /\ next' = next
          /\ ref'.addr = erased[h].data]_vars

C6_Witness ==
  /\ ref.h # 0 /\ ref.mut
  /\ erased[ref.h].st = "live"
  /\ heap[ref.addr].alloc = "live"
  /\ heap[ref.addr].bits = orig[ref.h].bits
  /\ next > ref.h

\* C7: whatever type is requested, matching the stored type or not, a borrow
\* returns a reference to the handle's data address and downcast_unchecked a
\* box of that address; no null or other failure value is ever returned.
C7_NoCheck ==
  /\ ref.h # 0 => (ref.addr = erased[ref.h].data /\ ref.addr \in Addrs)
  /\ \A h \in Handles :
       typed[h].st # "uninit"
       => (typed[h].ptr = erased[h].data /\ typed[h].ptr \in Addrs)

C7_Witness ==
  /\ ref.h # 0 /\ ref.ty # erased[ref.h].vtable
  /\ ref.addr = erased[ref.h].data
  /\ \E h \in Handles :
       /\ typed[h].st = "live" /\ typed[h].ty # erased[h].vtable
       /\ typed[h].ptr = erased[h].data

\* C8: every allocated slot has exactly one owning box, a freed slot has
\* none, the erased box and the box taken from it are never both live, and
\* no slot is released and no counter incremented more than once.
C8_SingleOwner ==
  /\ \A a \in Addrs :
       /\ heap[a].alloc = "live" => Cardinality(Owners(a)) = 1
       /\ heap[a].alloc # "live" => Owners(a) = {}
       /\ heap[a].released <= 1
       /\ counter[a] <= 1
  /\ \A h \in Handles : ~(erased[h].st = "live" /\ typed[h].st = "live")

C8_Witness ==
  \E h \in Handles, g \in Handles :
    /\ typed[h].st = "live" /\ Owners(typed[h].ptr) = {<<"typed", h>>}
    /\ typed[g].st = "dropped" /\ heap[typed[g].ptr].released = 1
    /\ counter[typed[g].ptr] = 1

C10_PathsEquivalent ==
  [][\A h \in Handles, T \in Types :
       /\ DowncastRefEffect("inherent", h, T)
            <=> DowncastRefEffect("ext", h, T)
       /\ DowncastMutEffect("inherent", h, T)
            <=> DowncastMutEffect("ext", h, T)
       /\ DowncastBoxEffect("inherent", h, T)
            <=> DowncastBoxEffect("ext", h, T)]_vars

C10_Witness ==
  \E h1, h2 \in Handles :
    /\ PathOf(erased[h1].kind) = "inherent"
    /\ PathOf(erased[h2].kind) = "ext"
    /\ \A h \in {h1, h2} :
         /\ orig[h].bits = IntBits(7) /\ wr[h].bits = IntBits(8)
         /\ wr[h].n = 1
         /\ typed[h].st = "live" /\ typed[h].ty = "usize"
         /\ heap[typed[h].ptr].bits = IntBits(8)

====
